---- MODULE Spec2Model ----
(***************************************************************************)
(* Model of icarus/models/cache.py: the cache replacement policies         *)
(* (NullCache, LruCache, LfuCache, FifoCache, RandCache) and the two       *)
(* wrappers rand_insert_cache and keyval_cache.                            *)
(*                                                                         *)
(* A cache object is a record holding the instance attributes of the       *)
(* Python object.  Every method is an operator from the object (and the    *)
(* arguments) to the object after the call and the value returned.         *)
(***************************************************************************)
EXTENDS Integers, Sequences, FiniteSets

\* ------------------------------------------------------------------ bounds
MaxKey == 2          \* keys are 0..MaxKey; key 0 is Python's falsy key 0
MaxCap == 2          \* capacities 1..MaxCap
MaxFreq == 2         \* LFU frequencies explored up to MaxFreq
MaxT == 3            \* LFU sequence counter explored up to MaxT
PScale == 2          \* probabilities and uniform draws are multiples of 1/PScale
KvMaxCap == 1
RngPeriod == 4        \* keyval_cache is explored on caches of capacity up to KvMaxCap

Keys == 0..MaxKey
Values == {0, 1}     \* the values keyval_cache stores; the code never inspects a value
None == -1           \* Python's None (no key, no node, nothing evicted)
NodeIds == 1..(MaxCap + 1)   \* identities of the live Node objects
Policies == {"NULL", "LRU", "LFU", "FIFO", "RAND"}

\* ----------------------------------------------------------------- helpers
EmptyMap == [x \in {} |-> None]

\* d[k] = v on a Python dict
DictSet(d, k, v) == [x \in (DOMAIN d) \cup {k} |-> IF x = k THEN v ELSE d[x]]

\* del d[k] on a Python dict
DictDel(d, k) == [x \in (DOMAIN d) \ {k} |-> d[x]]

\* the sequence s without the element k
RECURSIVE Without(_, _)
Without(s, k) ==
    IF s = <<>> THEN <<>>
    ELSE (IF s[1] = k THEN <<>> ELSE <<s[1]>>) \o Without(SubSeq(s, 2, Len(s)), k)

Range(f) == {f[x] : x \in DOMAIN f}

\* bool(x) for x a key or None: None and the key 0 are falsy
Truthy(x) == x # None /\ x # 0

\* comparison of the (frequency, sequence) tuples of LfuCache
TupleLess(a, b) == a[1] < b[1] \/ (a[1] = b[1] /\ a[2] < b[2])

\* ------------------------------------------------------------------- Node
Node(down, val) == [down |-> down, val |-> val, up |-> None, hits |-> 0, time |-> 0]

\* a Node object no live object refers to any more
FreeNode == [down |-> None, val |-> None, up |-> None, hits |-> 0, time |-> 0]

\* the identity a newly constructed Node gets: one no index entry holds
NewNodeId(c) ==
    CHOOSE n \in NodeIds \ Range(c.cache) :
        \A m \in NodeIds \ Range(c.cache) : n <= m

\* ---------------------------------------------------------------- NullCache
NullCache == [policy |-> "NULL"]

NullGet(c, k) == [c |-> c, ret |-> FALSE]

NullPut(c, k) == [c |-> c, ret |-> None]

\* ----------------------------------------------------------------- LruCache
LruCache(maxlen) ==
    [policy |-> "LRU", cache |-> EmptyMap, nodes |-> [n \in NodeIds |-> FreeNode],
     bottom |-> None, top |-> None, maxlen |-> maxlen]

RECURSIVE LruWalk(_, _, _)
LruWalk(c, cur, fuel) ==
    IF cur = None \/ fuel = 0 THEN <<>>
    ELSE <<c.nodes[cur].val>> \o LruWalk(c, c.nodes[cur].down, fuel - 1)

LruDump(c) == LruWalk(c, c.top, Cardinality(NodeIds))

LruHas(c, k) == k \in DOMAIN c.cache

\* the scan of position: the index at which the walk down from cur meets k
RECURSIVE LruScan(_, _, _, _, _)
LruScan(c, cur, k, index, fuel) ==
    IF cur = None \/ fuel = 0 THEN None
    ELSE IF c.nodes[cur].val = k THEN index
    ELSE LruScan(c, c.nodes[cur].down, k, index + 1, fuel - 1)

\* position counting the top as position 1
LruPosition_OneBased(c, k) ==
    IF ~(k \in DOMAIN c.cache) THEN [c |-> c, ret |-> None, exc |-> "ValueError"]
    ELSE [c |-> c, ret |-> LruScan(c, c.top, k, 1, Cardinality(NodeIds)), exc |-> "none"]

LruPosition(c, k) ==
    IF ~(k \in DOMAIN c.cache) THEN [c |-> c, ret |-> None, exc |-> "ValueError"]
    ELSE [c |-> c, ret |-> LruScan(c, c.top, k, 0, Cardinality(NodeIds)), exc |-> "none"]

\* LruGet finding the key without moving it to the top
LruGet_NoPromote(c, k) == [c |-> c, ret |-> k \in DOMAIN c.cache]

LruGet(c, k) ==
    IF ~LruHas(c, k) THEN [c |-> c, ret |-> FALSE]
    ELSE
    LET node == c.cache[k] IN
    IF c.nodes[node].up = None THEN [c |-> c, ret |-> TRUE]
    ELSE
    LET up == c.nodes[node].up
        down == c.nodes[node].down
        \* node.down.up = node.up, or self.bottom = node.up
        n1 == IF down # None THEN [c.nodes EXCEPT ![down].up = up] ELSE c.nodes
        bottom1 == IF down # None THEN c.bottom ELSE up
        \* node.up.down = node.down
        n2 == [n1 EXCEPT ![up].down = down]
        \* del self._cache[k]; obj = Node(self.top, k)
        obj == NewNodeId(c)
        n3 == [n2 EXCEPT ![obj] = Node(c.top, k)]
        bottom2 == IF bottom1 = None THEN obj ELSE bottom1
        n4 == IF c.top # None THEN [n3 EXCEPT ![c.top].up = obj] ELSE n3
        \* the unlinked node is no longer referenced
        n5 == [n4 EXCEPT ![node] = FreeNode]
    IN [c |-> [c EXCEPT !.nodes = n5, !.bottom = bottom2, !.top = obj,
                        !.cache = DictSet(DictDel(c.cache, k), k, obj)],
        ret |-> TRUE]

LruPut(c, k) ==
    LET g == LruGet(c, k) IN
    IF g.ret THEN [c |-> g.c, ret |-> None]
    ELSE
    LET obj == NewNodeId(c)
        n1 == [c.nodes EXCEPT ![obj] = Node(c.top, k)]
        bottom1 == IF c.bottom = None THEN obj ELSE c.bottom
        n2 == IF c.top # None THEN [n1 EXCEPT ![c.top].up = obj] ELSE n1
        cache1 == DictSet(c.cache, k, obj)
        c1 == [c EXCEPT !.nodes = n2, !.bottom = bottom1, !.top = obj, !.cache = cache1]
    IN
    IF Cardinality(DOMAIN cache1) <= c.maxlen THEN [c |-> c1, ret |-> None]
    ELSE IF bottom1 = obj
    THEN [c |-> [c1 EXCEPT !.bottom = None, !.top = None], ret |-> None]
    ELSE
    LET a == bottom1
        evicted == n2[a].val
        \* a.up.down = None; self.bottom = a.up; a.up = None; del a
        n3 == [n2 EXCEPT ![n2[a].up].down = None]
        n4 == [n3 EXCEPT ![a] = FreeNode]
    IN [c |-> [c1 EXCEPT !.nodes = n4, !.bottom = n2[a].up,
                         !.cache = DictDel(cache1, evicted)],
        ret |-> evicted]

\* clear emptying the index and leaving the two ends of the list in place
LruClear_KeepEnds(c) ==
    [c EXCEPT !.cache = EmptyMap, !.nodes = [n \in NodeIds |-> FreeNode]]

LruClear(c) ==
    [c EXCEPT !.cache = EmptyMap, !.bottom = None, !.top = None,
              !.nodes = [n \in NodeIds |-> FreeNode]]

\* ----------------------------------------------------------------- LfuCache
LfuCache(maxlen) == [policy |-> "LFU", cache |-> EmptyMap, t |-> 0, maxlen |-> maxlen]

\* LfuMin breaking ties in frequency toward the newest insertion
LfuMin_Newest(d) ==
    CHOOSE x \in DOMAIN d :
        \A y \in DOMAIN d :
            y = x \/ d[x][1] < d[y][1] \/ (d[x][1] = d[y][1] /\ d[x][2] > d[y][2])

\* min(self._cache, key=lambda x: self._cache[x])
LfuMin(d) == CHOOSE x \in DOMAIN d : \A y \in DOMAIN d : y = x \/ TupleLess(d[x], d[y])

\* max of the same key function (the first element of a descending sort)
LfuMax(d) == CHOOSE x \in DOMAIN d : \A y \in DOMAIN d : y = x \/ TupleLess(d[y], d[x])

RECURSIVE LfuSorted(_)
LfuSorted(d) ==
    IF DOMAIN d = {} THEN <<>>
    ELSE LET x == LfuMax(d) IN <<x>> \o LfuSorted(DictDel(d, x))

\* sorted(self._cache, key=lambda x: self._cache[x], reverse=True)
LfuDump(c) == LfuSorted(c.cache)

LfuHas(c, k) == k \in DOMAIN c.cache

\* get taking a new sequence number for the key it finds, as a recency touch
LfuGet_Touch(c, k) ==
    IF LfuHas(c, k)
    THEN [c |-> [c EXCEPT !.t = c.t + 1,
                          !.cache = DictSet(c.cache, k, <<c.cache[k][1] + 1, c.t + 1>>)],
          ret |-> TRUE]
    ELSE [c |-> c, ret |-> FALSE]

LfuGet(c, k) ==
    IF LfuHas(c, k)
    THEN [c |-> [c EXCEPT !.cache = DictSet(c.cache, k, <<c.cache[k][1] + 1, c.cache[k][2]>>)],
          ret |-> TRUE]
    ELSE [c |-> c, ret |-> FALSE]

\* LfuPut evicting without telling its caller
LfuPut_Silent(c, k) ==
    IF k \notin DOMAIN c.cache
    THEN LET cache1 == DictSet(c.cache, k, <<1, c.t + 1>>)
         IN [c |-> [c EXCEPT !.t = c.t + 1,
                             !.cache = IF Cardinality(DOMAIN cache1) > c.maxlen
                                       THEN DictDel(cache1, LfuMin(cache1)) ELSE cache1],
             ret |-> None]
    ELSE [c |-> c, ret |-> None]

\* put counting the insertion of a key already resident as a request for it
LfuPut_Bump(c, k) ==
    IF ~LfuHas(c, k)
    THEN LET t1 == c.t + 1
             cache1 == DictSet(c.cache, k, <<1, t1>>)
         IN IF Cardinality(DOMAIN cache1) > c.maxlen
            THEN LET evicted == LfuMin(cache1)
                 IN [c |-> [c EXCEPT !.t = t1, !.cache = DictDel(cache1, evicted)],
                     ret |-> evicted]
            ELSE [c |-> [c EXCEPT !.t = t1, !.cache = cache1], ret |-> None]
    ELSE [c |-> [c EXCEPT !.cache = DictSet(c.cache, k, <<c.cache[k][1] + 1, c.cache[k][2]>>)],
          ret |-> None]

LfuPut(c, k) ==
    IF ~LfuHas(c, k)
    THEN LET t1 == c.t + 1
             cache1 == DictSet(c.cache, k, <<1, t1>>)
         IN IF Cardinality(DOMAIN cache1) > c.maxlen
            THEN LET evicted == LfuMin(cache1)
                 IN [c |-> [c EXCEPT !.t = t1, !.cache = DictDel(cache1, evicted)],
                     ret |-> evicted]
            ELSE [c |-> [c EXCEPT !.t = t1, !.cache = cache1], ret |-> None]
    ELSE [c |-> c, ret |-> None]

LfuClear(c) == [c EXCEPT !.cache = EmptyMap]

\* ---------------------------------------------------------------- FifoCache
FifoCache(maxlen) == [policy |-> "FIFO", cache |-> {}, maxlen |-> maxlen, d |-> <<>>]

FifoDump(c) == c.d

FifoHas(c, k) == k \in c.cache

\* the scan of position: i plus the index of the first k in d, None if there is none
RECURSIVE FifoScan(_, _, _)
FifoScan(d, k, i) ==
    IF d = <<>> THEN None
    ELSE IF Head(d) = k THEN i
    ELSE FifoScan(Tail(d), k, i + 1)

FifoPosition(c, k) ==
    IF FifoScan(c.d, k, 0) = None THEN [c |-> c, ret |-> None, exc |-> "ValueError"]
    ELSE [c |-> c, ret |-> FifoScan(c.d, k, 0), exc |-> "none"]

\* FifoGet moving the key it finds to the front, as LRU does
FifoGet_Promote(c, k) ==
    [c |-> IF k \in c.cache THEN [c EXCEPT !.d = <<k>> \o Without(c.d, k)] ELSE c,
     ret |-> k \in c.cache]

FifoGet(c, k) == [c |-> c, ret |-> FifoHas(c, k)]

\* FifoPut popping the queue at the end it pushes to
FifoPut_PopLeft(c, k) ==
    LET cache1 == c.cache \cup {k}
        d1 == IF k \notin c.cache THEN <<k>> \o c.d ELSE c.d
    IN IF Cardinality(cache1) > c.maxlen
       THEN [c |-> [c EXCEPT !.cache = cache1 \ {d1[1]}, !.d = SubSeq(d1, 2, Len(d1))],
             ret |-> d1[1]]
       ELSE [c |-> [c EXCEPT !.cache = cache1, !.d = d1], ret |-> None]

FifoPut(c, k) ==
    LET cache1 == IF ~FifoHas(c, k) THEN c.cache \cup {k} ELSE c.cache
        \* self.d.appendleft(k)
        d1 == IF ~FifoHas(c, k) THEN <<k>> \o c.d ELSE c.d
    IN IF Cardinality(cache1) > c.maxlen
       THEN LET evicted == d1[Len(d1)]      \* self.d.pop()
            IN [c |-> [c EXCEPT !.cache = cache1 \ {evicted},
                                !.d = SubSeq(d1, 1, Len(d1) - 1)],
                ret |-> evicted]
       ELSE [c |-> [c EXCEPT !.cache = cache1, !.d = d1], ret |-> None]

\* clear emptying the set and leaving the deque as it is
FifoClear_KeepDeque(c) == [c EXCEPT !.cache = {}]

FifoClear(c) == [c EXCEPT !.cache = {}, !.d = <<>>]

\* ---------------------------------------------------------------- RandCache
\* self.a = np.empty(maxlen, dtype=object): maxlen slots, each holding None
RandCache(maxlen) ==
    [policy |-> "RAND", cache |-> {}, a |-> [i \in 0..(maxlen - 1) |-> None],
     maxlen |-> maxlen]

RECURSIVE SetToList(_)
\* list(a_set) for a set of small integers: iteration goes by hash, which is
\* the integer itself
SetToList(S) ==
    IF S = {} THEN <<>>
    ELSE LET x == CHOOSE y \in S : \A z \in S : y <= z IN <<x>> \o SetToList(S \ {x})

RandDump(c) == SetToList(c.cache)

RandHas(c, k) == k \in c.cache

RandGet(c, k) == [c |-> c, ret |-> RandHas(c, k)]

\* RandPut overwriting the slot without removing the evicted key from the set
RandPut_NoRemove(c, k, draw) ==
    IF k \notin c.cache
    THEN IF Cardinality(c.cache) = c.maxlen
         THEN [c |-> [c EXCEPT !.a = [c.a EXCEPT ![draw] = k], !.cache = c.cache \cup {k}],
               ret |-> c.a[draw]]
         ELSE [c |-> [c EXCEPT !.a = [c.a EXCEPT ![Cardinality(c.cache)] = k],
                               !.cache = c.cache \cup {k}],
               ret |-> None]
    ELSE [c |-> c, ret |-> None]

\* RandPut writing the key of a cache that is not full into slot 0
RandPut_FirstSlot(c, k, draw) ==
    IF ~RandHas(c, k)
    THEN IF Cardinality(c.cache) = c.maxlen
         THEN LET evicted_index == draw
                  evicted == c.a[evicted_index]
              IN [c |-> [c EXCEPT !.a = [c.a EXCEPT ![evicted_index] = k],
                                  !.cache = (c.cache \ {evicted}) \cup {k}],
                  ret |-> evicted]
         ELSE [c |-> [c EXCEPT !.a = [c.a EXCEPT ![0] = k],
                               !.cache = c.cache \cup {k}],
               ret |-> None]
    ELSE [c |-> c, ret |-> None]

\* draw is the value random.randint(0, self.maxlen - 1) returns when it is called
RandPut(c, k, draw) ==
    IF ~RandHas(c, k)
    THEN IF Cardinality(c.cache) = c.maxlen
         THEN LET evicted_index == draw
                  evicted == c.a[evicted_index]
              IN [c |-> [c EXCEPT !.a = [c.a EXCEPT ![evicted_index] = k],
                                  !.cache = (c.cache \ {evicted}) \cup {k}],
                  ret |-> evicted]
         ELSE [c |-> [c EXCEPT !.a = [c.a EXCEPT ![Cardinality(c.cache)] = k],
                               !.cache = c.cache \cup {k}],
               ret |-> None]
    ELSE [c |-> c, ret |-> None]

RandClear(c) == [c EXCEPT !.cache = {}]

\* ------------------------------------------------- the Cache interface
\* construction of a policy with capacity maxlen (NullCache ignores it)
NewCache(policy, maxlen) ==
    CASE policy = "NULL" -> NullCache
      [] policy = "LRU"  -> LruCache(maxlen)
      [] policy = "LFU"  -> LfuCache(maxlen)
      [] policy = "FIFO" -> FifoCache(maxlen)
      [] policy = "RAND" -> RandCache(maxlen)

\* the constructors with their checks: the exception raised, and the object
\* bound to the name on the left of the call (none when __init__ raises)
NullInit(maxlen) == [exc |-> "none", ret |-> <<NullCache>>]

\* __init__ refusing negative capacities only
LruInit_AllowZero(maxlen) ==
    IF maxlen < 0 THEN [exc |-> "ValueError", ret |-> <<>>]
    ELSE [exc |-> "none", ret |-> <<LruCache(maxlen)>>]

LruInit(maxlen) ==
    IF maxlen <= 0 THEN [exc |-> "ValueError", ret |-> <<>>]
    ELSE [exc |-> "none", ret |-> <<LruCache(maxlen)>>]

LfuInit(maxlen) ==
    IF maxlen <= 0 THEN [exc |-> "ValueError", ret |-> <<>>]
    ELSE [exc |-> "none", ret |-> <<LfuCache(maxlen)>>]

FifoInit(maxlen) ==
    IF maxlen <= 0 THEN [exc |-> "ValueError", ret |-> <<>>]
    ELSE [exc |-> "none", ret |-> <<FifoCache(maxlen)>>]

\* np.empty(maxlen) raises ValueError for a negative length, before the check
RandInit(maxlen) ==
    IF maxlen < 0 THEN [exc |-> "ValueError", ret |-> <<>>]
    ELSE IF maxlen <= 0 THEN [exc |-> "ValueError", ret |-> <<>>]
    ELSE [exc |-> "none", ret |-> <<RandCache(maxlen)>>]

Construct(policy, maxlen) ==
    CASE policy = "NULL" -> NullInit(maxlen)
      [] policy = "LRU"  -> LruInit(maxlen)
      [] policy = "LFU"  -> LfuInit(maxlen)
      [] policy = "FIFO" -> FifoInit(maxlen)
      [] policy = "RAND" -> RandInit(maxlen)

\* an object that is not an instance of Cache
NotACache == [policy |-> "object"]

\* isinstance(x, Cache)
IsCache(x) == x.policy \in Policies

\* len(cache)
CacheLen(c) ==
    CASE c.policy = "NULL" -> 0
      [] c.policy \in {"LRU", "LFU"} -> Cardinality(DOMAIN c.cache)
      [] c.policy \in {"FIFO", "RAND"} -> Cardinality(c.cache)

\* cache.maxlen
Maxlen(c) == IF c.policy = "NULL" THEN 0 ELSE c.maxlen

Has(c, k) ==
    CASE c.policy = "NULL" -> FALSE
      [] c.policy = "LRU"  -> LruHas(c, k)
      [] c.policy = "LFU"  -> LfuHas(c, k)
      [] c.policy = "FIFO" -> FifoHas(c, k)
      [] c.policy = "RAND" -> RandHas(c, k)

Get(c, k) ==
    CASE c.policy = "NULL" -> NullGet(c, k)
      [] c.policy = "LRU"  -> LruGet(c, k)
      [] c.policy = "LFU"  -> LfuGet(c, k)
      [] c.policy = "FIFO" -> FifoGet(c, k)
      [] c.policy = "RAND" -> RandGet(c, k)

Put(c, k, draw) ==
    CASE c.policy = "NULL" -> NullPut(c, k)
      [] c.policy = "LRU"  -> LruPut(c, k)
      [] c.policy = "LFU"  -> LfuPut(c, k)
      [] c.policy = "FIFO" -> FifoPut(c, k)
      [] c.policy = "RAND" -> RandPut(c, k, draw)

Dump(c) ==
    CASE c.policy = "NULL" -> <<>>
      [] c.policy = "LRU"  -> LruDump(c)
      [] c.policy = "LFU"  -> LfuDump(c)
      [] c.policy = "FIFO" -> FifoDump(c)
      [] c.policy = "RAND" -> RandDump(c)

Clear(c) ==
    CASE c.policy = "NULL" -> c
      [] c.policy = "LRU"  -> LruClear(c)
      [] c.policy = "LFU"  -> LfuClear(c)
      [] c.policy = "FIFO" -> FifoClear(c)
      [] c.policy = "RAND" -> RandClear(c)

\* has going through get, which may move the key or count the request
has_ViaGet(c, k) == Get(c, k)

\* has(k) as a call: the object after it and what it returns
has(c, k) == [c |-> c, ret |-> Has(c, k)]

\* c.position(k), which LruCache and FifoCache have
Position(c, k) ==
    IF c.policy = "LRU" THEN LruPosition(c, k) ELSE FifoPosition(c, k)

\* the keys resident in the cache
Resident(c) == {k \in Keys : Has(c, k)}

\* ------------------------------------------------------- rand_insert_cache
\* rand_put calling the inner put without returning what it returns
rand_put_NoReturn(c, p, k, u, draw) ==
    [c |-> IF u < p THEN Put(c, k, draw).c ELSE c, ret |-> None]

\* rand_put inserting also when the draw equals p
rand_put_le(c, p, k, u, draw) ==
    IF u <= p THEN Put(c, k, draw) ELSE [c |-> c, ret |-> None]

\* rand_put(k): u is the value random.random() returns, in units of 1/PScale
rand_put(c, p, k, u, draw) ==
    IF u < p THEN Put(c, k, draw) ELSE [c |-> c, ret |-> None]

\* ------------------------------------------------------------ keyval_cache
kv_put(c, vals, k, v, draw) ==
    LET vals1 == DictSet(vals, k, v)
        r == Put(c, k, draw)
        evicted == r.ret
    IN IF Truthy(evicted)
       THEN IF evicted \in DOMAIN vals1
            THEN [c |-> r.c, vals |-> DictDel(vals1, evicted),
                  ret |-> <<evicted, vals1[evicted]>>, inner |-> evicted, exc |-> "none"]
            ELSE [c |-> r.c, vals |-> vals1, ret |-> <<>>, inner |-> evicted,
                  exc |-> "KeyError"]
       ELSE [c |-> r.c, vals |-> vals1, ret |-> <<>>, inner |-> evicted, exc |-> "none"]

\* kv_get returning None although the inner cache finds the key
kv_get_Miss(c, vals, k) == [c |-> Get(c, k).c, ret |-> <<>>, exc |-> "none"]

kv_get(c, vals, k) ==
    LET g == Get(c, k)
    IN IF g.ret
       THEN IF k \in DOMAIN vals
            THEN [c |-> g.c, ret |-> <<vals[k]>>, exc |-> "none"]
            ELSE [c |-> g.c, ret |-> <<>>, exc |-> "KeyError"]
       ELSE [c |-> g.c, ret |-> <<>>, exc |-> "none"]

kv_dump(c, vals) ==
    LET dump == Dump(c)
    IN IF \A i \in 1..Len(dump) : dump[i] \in DOMAIN vals
       THEN [ret |-> [i \in 1..Len(dump) |-> <<dump[i], vals[dump[i]]>>], exc |-> "none"]
       ELSE [ret |-> <<>>, exc |-> "KeyError"]

\* kv_clear clearing the inner cache only
kv_clear_KeepVals(c, vals) == [c |-> Clear(c), vals |-> vals]

kv_clear(c, vals) == [c |-> Clear(c), vals |-> EmptyMap]

\* ------------------------------------------------------------ construction
\* an instance as its holder sees it: the Cache object, the wrapper that
\* returned it ("none" for a bare policy), its p and its _vals
Instance(c, w, q, v) == [c |-> c, wrap |-> w, p |-> q, vals |-> v]

\* rand_insert_cache(cache, q / PScale): the exception raised, the instance
\* returned, and the supplied object after the call
rand_insert_cache(c, q) ==
    IF ~IsCache(c) THEN [exc |-> "TypeError", ret |-> <<>>, supplied |-> c]
    ELSE IF q < 0 \/ q > PScale THEN [exc |-> "ValueError", ret |-> <<>>, supplied |-> c]
    ELSE [exc |-> "none", ret |-> <<Instance(c, "rand", q, EmptyMap)>>, supplied |-> c]

\* keyval_cache(cache)
keyval_cache(c) ==
    IF ~IsCache(c) THEN [exc |-> "TypeError", ret |-> <<>>, supplied |-> c]
    ELSE [exc |-> "none", ret |-> <<Instance(c, "kv", 0, EmptyMap)>>, supplied |-> c]

\* ------------------------------------------------------------------- state
VARIABLES
    cache,      \* the cache instance the caller holds
    wrap,       \* "none": a bare policy; "rand", "kv": the instance a wrapper returned
    p,          \* insertion probability of rand_insert_cache, in units of 1/PScale
    vals,       \* cache._vals of keyval_cache
    last,       \* the last call: its name, arguments, random draws and result
    pre,        \* the cache instance as it was before the last call
    prevals,    \* cache._vals as it was before the last call
    orig,       \* <<>>, or <<c>>: another instance c the caller holds besides cache
    rng         \* the state of the generator of the module random

vars == <<cache, wrap, p, vals, last, pre, prevals, orig, rng>>

NoCall ==
    [op |-> "new", k |-> None, v |-> None, draw |-> None, u |-> None,
     ret |-> <<>>, inner |-> None, exc |-> "none", after |-> <<>>,
     replaced |-> FALSE, arg |-> <<>>, ref |-> <<>>, rng0 |-> None]

\* what a method returning a key or None returned
RetOf(x) == IF x = None THEN <<>> ELSE <<x>>

\* the calls explored: LFU counters stay within MaxFreq and MaxT
GetInBounds(c, k) == (c.policy = "LFU" /\ Has(c, k)) => c.cache[k][1] < MaxFreq
PutInBounds(c, k) == (c.policy = "LFU" /\ ~Has(c, k)) => c.t < MaxT

\* the values random.randint(0, maxlen - 1) can return in put(k); None when
\* put(k) does not call it
DrawsOf(c, k) ==
    IF c.policy = "RAND" /\ ~Has(c, k) /\ CacheLen(c) = Maxlen(c)
    THEN 0..(c.maxlen - 1) ELSE {None}

Init ==
    /\ \E policy \in Policies :
        \E maxlen \in 1..MaxCap :
            /\ (policy = "NULL") => (maxlen = 1)
            /\ cache = NewCache(policy, maxlen)
    /\ wrap = "none"
    /\ p = 0
    /\ vals = EmptyMap
    /\ last = NoCall
    /\ pre = cache
    /\ prevals = EmptyMap
    /\ orig = <<>>
    /\ rng = 0

\* cache.has(k), on a bare policy or a wrapper (no wrapper replaces has)
HasCall ==
    \E k \in Keys :
        /\ cache' = has(cache, k).c
        /\ last' = [NoCall EXCEPT !.op = "has", !.k = k, !.ret = <<has(cache, k).ret>>]
        /\ pre' = cache
        /\ prevals' = vals
        /\ UNCHANGED <<wrap, p, vals, orig, rng>>

\* cache.get(k), on a bare policy or on the instance rand_insert_cache returned
GetCall ==
    \E k \in Keys :
        /\ wrap \in {"none", "rand"}
        /\ GetInBounds(cache, k)
        /\ cache' = Get(cache, k).c
        /\ last' = [NoCall EXCEPT !.op = "get", !.k = k, !.ret = <<Get(cache, k).ret>>]
        /\ pre' = cache
        /\ prevals' = vals
        /\ UNCHANGED <<wrap, p, vals, orig, rng>>

\* cache.put(k) on a bare policy
PutCall ==
    \E k \in Keys :
        \E draw \in DrawsOf(cache, k) :
            /\ wrap = "none"
            /\ PutInBounds(cache, k)
            /\ cache' = Put(cache, k, draw).c
            /\ last' = [NoCall EXCEPT !.op = "put", !.k = k, !.draw = draw,
                                      !.ret = RetOf(Put(cache, k, draw).ret)]
            /\ pre' = cache
            /\ prevals' = vals
            /\ UNCHANGED <<wrap, p, vals, orig, rng>>

\* cache.dump(), on a bare policy or on the instance rand_insert_cache returned
DumpCall ==
    /\ wrap \in {"none", "rand"}
    /\ last' = [NoCall EXCEPT !.op = "dump", !.ret = Dump(cache)]
    /\ pre' = cache
    /\ prevals' = vals
    /\ UNCHANGED <<cache, wrap, p, vals, orig, rng>>

\* cache.clear(), on a bare policy or on the instance rand_insert_cache returned
ClearCall ==
    /\ wrap \in {"none", "rand"}
    /\ cache' = Clear(cache)
    /\ last' = [NoCall EXCEPT !.op = "clear"]
    /\ pre' = cache
    /\ prevals' = vals
    /\ UNCHANGED <<wrap, p, vals, orig, rng>>

\* cache.position(k), on a bare LRU or FIFO cache
PositionCall ==
    \E k \in Keys :
        /\ wrap = "none"
        /\ cache.policy \in {"LRU", "FIFO"}
        /\ cache' = Position(cache, k).c
        /\ last' = [NoCall EXCEPT !.op = "position", !.k = k,
                                  !.ret = RetOf(Position(cache, k).ret),
                                  !.exc = Position(cache, k).exc]
        /\ pre' = cache
        /\ prevals' = vals
        /\ UNCHANGED <<wrap, p, vals, orig, rng>>

\* cache = rand_insert_cache(cache, p): the caller goes on with the copy
RandInsertCacheCall ==
    \E q \in 0..PScale :
        /\ wrap = "none"
        /\ wrap' = "rand"
        /\ p' = q
        /\ cache' = cache                 \* copy.deepcopy(cache)
        /\ last' = [NoCall EXCEPT !.op = "rand_insert_cache"]
        /\ pre' = cache
        /\ prevals' = vals
        /\ UNCHANGED <<vals, orig, rng>>

\* put(k) on the instance rand_insert_cache returned
RandPutCall ==
    \E k \in Keys :
        \E u \in 0..(PScale - 1) :
            \E draw \in (IF u < p THEN DrawsOf(cache, k) ELSE {None}) :
                /\ wrap = "rand"
                /\ (u < p) => PutInBounds(cache, k)
                /\ cache' = rand_put(cache, p, k, u, draw).c
                /\ last' = [NoCall EXCEPT !.op = "rand_put", !.k = k, !.u = u,
                                          !.draw = draw,
                                          !.ret = RetOf(rand_put(cache, p, k, u, draw).ret)]
                /\ pre' = cache
                /\ prevals' = vals
                /\ UNCHANGED <<wrap, p, vals, orig, rng>>

\* cache = keyval_cache(cache): the caller goes on with the copy
KeyvalCacheCall ==
    /\ wrap = "none"
    /\ Maxlen(cache) <= KvMaxCap
    /\ wrap' = "kv"
    /\ cache' = cache                     \* copy.deepcopy(cache)
    /\ vals' = EmptyMap                   \* cache._vals = {}
    /\ last' = [NoCall EXCEPT !.op = "keyval_cache"]
    /\ pre' = cache
    /\ prevals' = vals
    /\ UNCHANGED <<p, orig, rng>>

\* put(k, v) on the instance keyval_cache returned
KvPutCall ==
    \E k \in Keys :
        \E v \in Values :
            \E draw \in DrawsOf(cache, k) :
                LET r == kv_put(cache, vals, k, v, draw) IN
                /\ wrap = "kv"
                /\ PutInBounds(cache, k)
                /\ cache' = r.c
                /\ vals' = r.vals
                /\ last' = [NoCall EXCEPT !.op = "kv_put", !.k = k, !.v = v,
                                          !.draw = draw, !.ret = r.ret,
                                          !.inner = r.inner, !.exc = r.exc]
                /\ pre' = cache
                /\ prevals' = vals
                /\ UNCHANGED <<wrap, p, orig, rng>>

\* get(k) on the instance keyval_cache returned; last.after holds v when the
\* call before was put(k, v) of the same key, and last.replaced tells whether
\* k was resident with another value before that put
KvGetCall ==
    \E k \in Keys :
        LET r == kv_get(cache, vals, k) IN
        /\ wrap = "kv"
        /\ GetInBounds(cache, k)
        /\ cache' = r.c
        /\ last' = [NoCall EXCEPT !.op = "kv_get", !.k = k, !.ret = r.ret,
                                  !.exc = r.exc,
                                  !.after = IF last.op = "kv_put" /\ last.k = k
                                            THEN <<last.v>> ELSE <<>>,
                                  !.replaced = /\ last.op = "kv_put" /\ last.k = k
                                               /\ Has(pre, k) /\ k \in DOMAIN prevals
                                               /\ prevals[k] # last.v]
        /\ pre' = cache
        /\ prevals' = vals
        /\ UNCHANGED <<wrap, p, vals, orig, rng>>

\* dump() on the instance keyval_cache returned
KvDumpCall ==
    /\ wrap = "kv"
    /\ last' = [NoCall EXCEPT !.op = "kv_dump", !.ret = kv_dump(cache, vals).ret,
                              !.exc = kv_dump(cache, vals).exc]
    /\ pre' = cache
    /\ prevals' = vals
    /\ UNCHANGED <<cache, wrap, p, vals, orig, rng>>

\* clear() on the instance keyval_cache returned
KvClearCall ==
    /\ wrap = "kv"
    /\ cache' = kv_clear(cache, vals).c
    /\ vals' = kv_clear(cache, vals).vals
    /\ last' = [NoCall EXCEPT !.op = "kv_clear"]
    /\ pre' = cache
    /\ prevals' = vals
    /\ UNCHANGED <<wrap, p, orig, rng>>

\* cache = Policy(maxlen): on an exception the name keeps the object it had
NewCall ==
    \E policy \in Policies :
        \E maxlen \in (0 - 1)..MaxCap :
            /\ wrap = "none"
            /\ cache' = IF Construct(policy, maxlen).exc = "none"
                        THEN Construct(policy, maxlen).ret[1] ELSE cache
            /\ last' = [NoCall EXCEPT !.op = "__init__", !.arg = <<policy, maxlen>>,
                                      !.ret = Construct(policy, maxlen).ret,
                                      !.exc = Construct(policy, maxlen).exc]
            /\ pre' = cache
            /\ prevals' = vals
            /\ UNCHANGED <<wrap, p, vals, orig, rng>>

\* rand_insert_cache(x, q / PScale), x the cache held or another object
RandInsertCacheTry ==
    \E x \in {cache, NotACache} :
        \E q \in (0 - 1)..(PScale + 1) :
            /\ wrap = "none"
            /\ cache' = IF x = cache THEN rand_insert_cache(x, q).supplied ELSE cache
            /\ last' = [NoCall EXCEPT !.op = "rand_insert_cache", !.arg = <<x, q>>,
                                      !.ret = rand_insert_cache(x, q).ret,
                                      !.exc = rand_insert_cache(x, q).exc]
            /\ pre' = cache
            /\ prevals' = vals
            /\ UNCHANGED <<wrap, p, vals, orig, rng>>

\* keyval_cache(x), x the cache held or another object
KeyvalCacheTry ==
    \E x \in {cache, NotACache} :
        /\ wrap = "none"
        /\ cache' = IF x = cache THEN keyval_cache(x).supplied ELSE cache
        /\ last' = [NoCall EXCEPT !.op = "keyval_cache", !.arg = <<x>>,
                                  !.ret = keyval_cache(x).ret,
                                  !.exc = keyval_cache(x).exc]
        /\ pre' = cache
        /\ prevals' = vals
        /\ UNCHANGED <<wrap, p, vals, orig, rng>>

\* the calls on a bare policy
Next ==
    \/ HasCall
    \/ GetCall
    \/ PutCall
    \/ DumpCall
    \/ ClearCall
    \/ PositionCall

Spec == Init /\ [][Next]_vars

\* a bare policy, then the instance rand_insert_cache makes of it
NextRand ==
    \/ HasCall
    \/ GetCall
    \/ PutCall
    \/ DumpCall
    \/ ClearCall
    \/ RandInsertCacheCall
    \/ RandPutCall

SpecRand == Init /\ [][NextRand]_vars

\* a bare policy, then the instance keyval_cache makes of it
NextKv ==
    \/ HasCall
    \/ GetCall
    \/ PutCall
    \/ DumpCall
    \/ ClearCall
    \/ KeyvalCacheCall
    \/ KvPutCall
    \/ KvGetCall
    \/ KvDumpCall
    \/ KvClearCall

SpecKv == Init /\ [][NextKv]_vars

\* ---------------------------------------------------- the module random
\* The generator of the module random, which random.seed, random.random and
\* random.randint all work on: a state in 0..RngPeriod-1 that every draw
\* advances by one; a draw is a function of the state it is made in.
RngSeed(seed) == IF seed = None THEN 0..(RngPeriod - 1) ELSE {seed % RngPeriod}

RngNext(s) == (s + 1) % RngPeriod

\* random.random(), in units of 1 / PScale
RngRandom(s) == s % PScale

\* random.randint(0, n - 1)
RngRandint(s, n) == s % n

\* c.put(k) of a bare policy, drawing from the generator in state s when
\* RandCache.put evicts
PutDrawing(c, k, s) ==
    IF DrawsOf(c, k) = {None}
    THEN [c |-> Put(c, k, None).c, ret |-> Put(c, k, None).ret, rng |-> s]
    ELSE [c |-> Put(c, k, RngRandint(s, c.maxlen)).c,
          ret |-> Put(c, k, RngRandint(s, c.maxlen)).ret, rng |-> RngNext(s)]

\* rand_put(k) of rand_insert_cache, drawing from the generator in state s
rand_put_drawing(c, q, k, s) ==
    IF RngRandom(s) < q
    THEN PutDrawing(c, k, RngNext(s))
    ELSE [c |-> c, ret |-> None, rng |-> RngNext(s)]

\* ---------------------------------------------------------------------------
\* A RandCache (cache) and an instance rand_insert_cache returned (orig) in
\* one process, both drawing from the generator of the module random.
InitRng ==
    /\ \E maxlen \in 1..MaxCap : cache = RandCache(maxlen)
    /\ rng \in 0..(RngPeriod - 1)
    /\ orig = <<>>
    /\ wrap = "none"
    /\ p = 0
    /\ vals = EmptyMap
    /\ last = NoCall
    /\ pre = cache
    /\ prevals = EmptyMap

\* cache.put(k) on the RandCache
RngPutCall ==
    \E k \in Keys :
        /\ cache' = PutDrawing(cache, k, rng).c
        /\ rng' = PutDrawing(cache, k, rng).rng
        /\ last' = [NoCall EXCEPT !.op = "put", !.k = k,
                                  !.ret = RetOf(PutDrawing(cache, k, rng).ret),
                                  !.rng0 = rng]
        /\ pre' = cache
        /\ UNCHANGED <<orig, wrap, p, vals, prevals>>

\* orig = rand_insert_cache(Policy(1), q / PScale, seed)
RngWrapCall ==
    \E policy \in {"FIFO", "RAND"} :
        \E q \in 0..PScale :
            \E seed \in {None} \cup (0..(RngPeriod - 1)) :
                \E s \in RngSeed(seed) :
                    /\ orig' = rand_insert_cache(NewCache(policy, 1), q).ret
                    /\ rng' = s
                    /\ last' = [NoCall EXCEPT !.op = "rand_insert_cache",
                                              !.arg = <<seed>>, !.rng0 = rng]
                    /\ pre' = cache
                    /\ UNCHANGED <<cache, wrap, p, vals, prevals>>

\* orig.put(k) on the instance rand_insert_cache returned
RngRandPutCall ==
    \E k \in Keys :
        /\ orig # <<>>
        /\ orig' = <<[orig[1] EXCEPT !.c = rand_put_drawing(orig[1].c, orig[1].p, k, rng).c]>>
        /\ rng' = rand_put_drawing(orig[1].c, orig[1].p, k, rng).rng
        /\ last' = [NoCall EXCEPT !.op = "rand_put", !.k = k,
                                  !.u = RngRandom(rng),
                                  !.ret = RetOf(rand_put_drawing(orig[1].c, orig[1].p, k, rng).ret),
                                  !.rng0 = rng]
        /\ pre' = cache
        /\ UNCHANGED <<cache, wrap, p, vals, prevals>>

NextRng ==
    \/ RngPutCall
    \/ RngWrapCall
    \/ RngRandPutCall

SpecRng == InitRng /\ [][NextRng]_vars

\* ---------------------------------------------------------------------------
\* An instance c, bare or returned by rand_insert_cache (cache, wrap, p), is
\* handed to a wrapper function, and the caller keeps both c and the instance
\* w the function returns (orig). copy.deepcopy copies the attributes of c; a
\* bound method it copies is bound to the copy, and a function object, which
\* is what rand_insert_cache left in the attribute put of c, it does not copy.

\* w as the caller sees it: its own Cache object, the wrapper function that
\* returned it, its p and _vals, and put: the attribute put the copy had when
\* the wrapper function read it ("none": the method of the copy; "rand": the
\* function rand_put of c, with the p of c)
Nested(c, w, q, sw, sp) ==
    [c |-> c, wrap |-> w, p |-> q, vals |-> EmptyMap, put |-> [wrap |-> sw, p |-> sp]]

\* the object the captured put works on
PutTarget(w, sup) == IF w.put.wrap = "none" THEN w.c ELSE sup

\* put(k) as captured in `put = cache.put` and `k_put = cache.put`
CapturedPut(w, sup, k, u1, draw) ==
    IF w.put.wrap = "none"
    THEN [own |-> Put(w.c, k, draw).c, sup |-> sup, ret |-> Put(w.c, k, draw).ret]
    ELSE [own |-> w.c, sup |-> rand_put(sup, w.put.p, k, u1, draw).c,
          ret |-> rand_put(sup, w.put.p, k, u1, draw).ret]

\* w.put(k), w returned by rand_insert_cache
nested_rand_put(w, sup, k, u1, u2, draw) ==
    IF u2 < w.p
    THEN LET r == CapturedPut(w, sup, k, u1, draw)
         IN [w |-> [w EXCEPT !.c = r.own], sup |-> r.sup, ret |-> RetOf(r.ret), exc |-> "none"]
    ELSE [w |-> w, sup |-> sup, ret |-> <<>>, exc |-> "none"]

\* w.put(k, v), w returned by keyval_cache
nested_kv_put(w, sup, k, v, u1, draw) ==
    LET vals1 == DictSet(w.vals, k, v)
        r == CapturedPut(w, sup, k, u1, draw)
        evicted == r.ret
    IN IF Truthy(evicted)
       THEN IF evicted \in DOMAIN vals1
            THEN [w |-> [w EXCEPT !.c = r.own, !.vals = DictDel(vals1, evicted)],
                  sup |-> r.sup, ret |-> <<evicted, vals1[evicted]>>, exc |-> "none"]
            ELSE [w |-> [w EXCEPT !.c = r.own, !.vals = vals1],
                  sup |-> r.sup, ret |-> <<>>, exc |-> "KeyError"]
       ELSE [w |-> [w EXCEPT !.c = r.own, !.vals = vals1],
             sup |-> r.sup, ret |-> <<>>, exc |-> "none"]

InitNest ==
    /\ Init
    /\ Maxlen(cache) <= KvMaxCap

\* orig = rand_insert_cache(cache, q / PScale)
NestRandCall ==
    \E q \in 0..PScale :
        /\ orig = <<>>
        /\ orig' = <<Nested(cache, "rand", q, wrap, p)>>
        /\ last' = [NoCall EXCEPT !.op = "nest"]
        /\ pre' = cache
        /\ UNCHANGED <<cache, wrap, p, vals, prevals, rng>>

\* orig = keyval_cache(cache)
NestKvCall ==
    /\ orig = <<>>
    /\ orig' = <<Nested(cache, "kv", 0, wrap, p)>>
    /\ last' = [NoCall EXCEPT !.op = "nest"]
    /\ pre' = cache
    /\ UNCHANGED <<cache, wrap, p, vals, prevals, rng>>

\* orig.put(k), orig returned by rand_insert_cache
NestRandPutCall ==
    /\ orig # <<>>
    /\ orig[1].wrap = "rand"
    /\ \E k \in Keys :
        \E u1 \in 0..(PScale - 1) :
            \E u2 \in 0..(PScale - 1) :
                \E draw \in DrawsOf(PutTarget(orig[1], cache), k) :
                    /\ PutInBounds(PutTarget(orig[1], cache), k)
                    /\ orig' = <<nested_rand_put(orig[1], cache, k, u1, u2, draw).w>>
                    /\ cache' = nested_rand_put(orig[1], cache, k, u1, u2, draw).sup
                    /\ last' = [NoCall EXCEPT !.op = "nest_put", !.k = k,
                                   !.ret = nested_rand_put(orig[1], cache, k, u1, u2, draw).ret]
                    /\ pre' = cache
                    /\ UNCHANGED <<wrap, p, vals, prevals, rng>>

\* orig.put(k, 0), orig returned by keyval_cache (the value stored plays no
\* part in which object the captured put works on)
NestKvPutCall ==
    /\ orig # <<>>
    /\ orig[1].wrap = "kv"
    /\ \E k \in Keys :
        \E v \in {0} :
            \E u1 \in 0..(PScale - 1) :
                \E draw \in DrawsOf(PutTarget(orig[1], cache), k) :
                    /\ PutInBounds(PutTarget(orig[1], cache), k)
                    /\ orig' = <<nested_kv_put(orig[1], cache, k, v, u1, draw).w>>
                    /\ cache' = nested_kv_put(orig[1], cache, k, v, u1, draw).sup
                    /\ last' = [NoCall EXCEPT !.op = "nest_put", !.k = k, !.v = v,
                                   !.ret = nested_kv_put(orig[1], cache, k, v, u1, draw).ret,
                                   !.exc = nested_kv_put(orig[1], cache, k, v, u1, draw).exc]
                    /\ pre' = cache
                    /\ UNCHANGED <<wrap, p, vals, prevals, rng>>

\* orig.clear(): the method clear of the copy, and _vals of the copy
NestClearCall ==
    /\ orig # <<>>
    /\ orig' = <<[orig[1] EXCEPT !.c = Clear(orig[1].c), !.vals = EmptyMap]>>
    /\ last' = [NoCall EXCEPT !.op = "nest_clear"]
    /\ pre' = cache
    /\ UNCHANGED <<cache, wrap, p, vals, prevals, rng>>

NextNest ==
    \/ PutCall
    \/ RandInsertCacheCall
    \/ RandPutCall
    \/ NestRandCall
    \/ NestKvCall
    \/ NestRandPutCall
    \/ NestKvPutCall
    \/ NestClearCall

SpecNest == InitNest /\ [][NextNest]_vars

\* constructing policies, filling them and handing them to the wrappers
NextNew ==
    \/ NewCall
    \/ PutCall
    \/ RandInsertCacheTry
    \/ KeyvalCacheTry

SpecNew == Init /\ [][NextNew]_vars

\* a bare policy, then possibly one of the two wrappers around it: the calls
\* that change or query the object (dump changes nothing and is left to Spec,
\* SpecRand and SpecKv)
NextAny ==
    \/ HasCall
    \/ GetCall
    \/ PutCall
    \/ ClearCall
    \/ RandInsertCacheCall
    \/ RandPutCall
    \/ KeyvalCacheCall
    \/ KvPutCall
    \/ KvGetCall
    \/ KvClearCall

SpecAny == Init /\ [][NextAny]_vars

\* ------------------------------------------------------------------ claims
\* the last call was put(k) on a bare LRU, LFU, FIFO or RAND cache
BarePut == last.op = "put" /\ pre.policy # "NULL"

\* C1: for LRU, LFU, FIFO and RAND built with capacity C > 0, size() <= C
\* holds after every contains/fetch/insert/clear call.
C1_SizeWithinCapacity ==
    cache.policy # "NULL" => CacheLen(cache) <= cache.maxlen

\* C1 witness: an insert of an absent key into a full cache has returned.
C1_Witness ==
    /\ BarePut
    /\ ~Has(pre, last.k)
    /\ CacheLen(pre) = pre.maxlen
    /\ CacheLen(cache) = cache.maxlen

\* C2: insert(k) of a resident key returns no eviction and leaves the set of
\* resident keys unchanged; of an absent key below capacity returns no eviction
\* and size() grows by one; of an absent key at capacity evicts exactly one
\* item, returns it, and leaves size() = capacity().
C2_InsertOutcome ==
    BarePut =>
        /\ Has(pre, last.k) =>
            /\ last.ret = <<>>
            /\ Resident(cache) = Resident(pre)
        /\ (~Has(pre, last.k) /\ CacheLen(pre) < pre.maxlen) =>
            /\ last.ret = <<>>
            /\ CacheLen(cache) = CacheLen(pre) + 1
        /\ (~Has(pre, last.k) /\ CacheLen(pre) = pre.maxlen) =>
            /\ Len(last.ret) = 1
            /\ (Resident(pre) \cup {last.k}) \ Resident(cache) = {last.ret[1]}
            /\ Resident(cache) \subseteq Resident(pre) \cup {last.k}
            /\ CacheLen(cache) = cache.maxlen

\* C2 witness: an insert into a full cache has evicted a key.
C2_Witness ==
    /\ BarePut
    /\ ~Has(pre, last.k)
    /\ CacheLen(pre) = pre.maxlen
    /\ Len(last.ret) = 1

\* C3 (as claimed): immediately after insert(k) returns, contains(k) is true,
\* and the evicted key returned (if any) is a key other than k that was
\* resident before the call and is not resident after it.
C3_InsertedKeyResident ==
    BarePut =>
        /\ Has(cache, last.k)
        /\ last.ret # <<>> =>
            /\ last.ret[1] # last.k
            /\ Has(pre, last.ret[1])
            /\ ~Has(cache, last.ret[1])

\* C3 (amended): after insert(k) returns, contains(k) is true unless the call
\* returned k itself as the evicted key, which only LfuCache does, and only
\* when k was absent and every resident key had frequency >= 2; an evicted key
\* other than k was resident before the call, and no evicted key is resident
\* after it.
C3_InsertedKeyResidentUnlessEvicted ==
    BarePut =>
        /\ (last.ret = <<>> \/ last.ret[1] # last.k) => Has(cache, last.k)
        /\ last.ret # <<>> =>
            /\ ~Has(cache, last.ret[1])
            /\ last.ret[1] # last.k => Has(pre, last.ret[1])
            /\ last.ret[1] = last.k =>
                /\ pre.policy = "LFU"
                /\ ~Has(pre, last.k)
                /\ \A x \in DOMAIN pre.cache : pre.cache[x][1] >= 2

\* C3 witness: an LFU insert has returned the inserted key itself as evicted.
C3_Witness ==
    /\ BarePut
    /\ last.ret = <<last.k>>
    /\ ~Has(cache, last.k)

LfuCandidates == DictSet(pre.cache, last.k, <<1, pre.t + 1>>)

\* C5: LfuCache: whenever insert evicts, the evicted key holds the
\* lexicographically smallest (frequency, sequence) pair (least frequent, ties
\* toward the oldest insertion); snapshot() lists the resident keys in
\* descending (frequency, sequence) order.
C5_LfuEvictsMinimum ==
    cache.policy = "LFU" =>
        /\ (last.op = "put" /\ last.ret # <<>>) =>
            /\ last.ret[1] \in DOMAIN LfuCandidates
            /\ \A x \in DOMAIN LfuCandidates :
                x = last.ret[1]
                    \/ TupleLess(LfuCandidates[last.ret[1]], LfuCandidates[x])
        /\ Len(Dump(cache)) = CacheLen(cache)
        /\ {Dump(cache)[i] : i \in 1..Len(Dump(cache))} = Resident(cache)
        /\ \A i, j \in 1..Len(Dump(cache)) :
            i < j => TupleLess(cache.cache[Dump(cache)[j]], cache.cache[Dump(cache)[i]])

\* C5 witness: an LFU insert has evicted the older of two keys of equal
\* frequency while a more frequent key stayed.
C5_Witness ==
    /\ cache.policy = "LFU"
    /\ last.op = "put"
    /\ last.ret # <<>>
    /\ last.ret[1] # last.k
    /\ pre.cache[last.ret[1]][1] = 1
    /\ \E x \in DOMAIN cache.cache : cache.cache[x][1] > 1

\* C6: FifoCache: fetch(k) never changes snapshot(); insert of a resident key
\* never changes snapshot(); whenever insert evicts, the evicted key is the
\* last element of the newest-first snapshot(), however often it was fetched.
C6_FifoOrder ==
    pre.policy = "FIFO" =>
        /\ last.op = "get" => Dump(cache) = Dump(pre)
        /\ (last.op = "put" /\ Has(pre, last.k)) => Dump(cache) = Dump(pre)
        /\ (last.op = "put" /\ last.ret # <<>>) =>
            /\ last.ret[1] = Dump(pre)[Len(Dump(pre))]
            /\ Dump(cache) = <<last.k>> \o SubSeq(Dump(pre), 1, Len(Dump(pre)) - 1)

\* C6 witness: a FIFO fetch of a resident key that is not the newest.
C6_Witness ==
    /\ pre.policy = "FIFO"
    /\ last.op = "get"
    /\ Has(pre, last.k)
    /\ Dump(pre)[1] # last.k

\* C7 (as claimed): on the instance keyval_cache returns, after construction
\* and after every call, the key set of the value map equals the set of keys
\* resident in the inner cache.
C7_ValsMirrorResident ==
    wrap = "kv" => DOMAIN vals = Resident(cache)

C9_EvictionReported ==
    last.op = "kv_put" =>
        /\ (last.inner # None /\ last.inner \in DOMAIN DictSet(prevals, last.k, last.v)) =>
            /\ last.exc = "none"
            /\ last.ret = <<last.inner, DictSet(prevals, last.k, last.v)[last.inner]>>
            /\ last.inner \notin DOMAIN vals
        /\ last.inner = None => last.ret = <<>>

\* C10: on the instance rand_insert_cache returns, insert(k) either delegates
\* to the inner insert and returns its result (draw < p), or returns no
\* eviction and leaves the whole state of the inner cache unchanged
\* (draw >= p); with p = 0 no insert changes size() or snapshot().
C10_RandPutFrame ==
    last.op = "rand_put" =>
        /\ last.u < p =>
            /\ cache = Put(pre, last.k, last.draw).c
            /\ last.ret = RetOf(Put(pre, last.k, last.draw).ret)
        /\ last.u >= p =>
            /\ cache = pre
            /\ last.ret = <<>>
        /\ p = 0 =>
            /\ CacheLen(cache) = CacheLen(pre)
            /\ Dump(cache) = Dump(pre)

\* C10 witness: an insert of an absent key into a non-empty cache was dropped.
C10_Witness ==
    /\ last.op = "rand_put"
    /\ last.u >= p
    /\ ~Has(pre, last.k)
    /\ CacheLen(pre) > 0
    /\ CacheLen(pre) < Maxlen(pre)

\* ---------------------------------------------------------------------------
\* The instance rand_insert_cache(c, 1) makes of a new cache c, and a cache of
\* the same policy and capacity (orig), driven by the same calls and the same
\* draws of random.randint.
InitPair ==
    /\ \E policy \in Policies :
        \E maxlen \in 1..MaxCap :
            /\ (policy = "NULL") => (maxlen = 1)
            /\ cache = NewCache(policy, maxlen)
            /\ orig = <<NewCache(policy, maxlen)>>
    /\ wrap = "rand"
    /\ p = PScale
    /\ vals = EmptyMap
    /\ last = NoCall
    /\ pre = cache
    /\ prevals = EmptyMap
    /\ rng = 0

PairDrawsOf(k) ==
    IF DrawsOf(cache, k) # {None} THEN DrawsOf(cache, k) ELSE DrawsOf(orig[1], k)

PairHasCall ==
    \E k \in Keys :
        /\ cache' = has(cache, k).c
        /\ orig' = <<has(orig[1], k).c>>
        /\ last' = [NoCall EXCEPT !.op = "has", !.k = k,
                                  !.ret = <<has(cache, k).ret>>,
                                  !.ref = <<has(orig[1], k).ret>>]
        /\ pre' = cache
        /\ UNCHANGED <<wrap, p, vals, prevals, rng>>

PairGetCall ==
    \E k \in Keys :
        /\ GetInBounds(cache, k)
        /\ GetInBounds(orig[1], k)
        /\ cache' = Get(cache, k).c
        /\ orig' = <<Get(orig[1], k).c>>
        /\ last' = [NoCall EXCEPT !.op = "get", !.k = k,
                                  !.ret = <<Get(cache, k).ret>>,
                                  !.ref = <<Get(orig[1], k).ret>>]
        /\ pre' = cache
        /\ UNCHANGED <<wrap, p, vals, prevals, rng>>

PairPutCall ==
    \E k \in Keys :
        \E u \in 0..(PScale - 1) :
            \E draw \in PairDrawsOf(k) :
                /\ PutInBounds(cache, k)
                /\ PutInBounds(orig[1], k)
                /\ cache' = rand_put(cache, p, k, u, draw).c
                /\ orig' = <<Put(orig[1], k, draw).c>>
                /\ last' = [NoCall EXCEPT !.op = "rand_put", !.k = k, !.u = u,
                                          !.draw = draw,
                                          !.ret = RetOf(rand_put(cache, p, k, u, draw).ret),
                                          !.ref = RetOf(Put(orig[1], k, draw).ret)]
                /\ pre' = cache
                /\ UNCHANGED <<wrap, p, vals, prevals, rng>>

PairDumpCall ==
    /\ last' = [NoCall EXCEPT !.op = "dump", !.ret = Dump(cache), !.ref = Dump(orig[1])]
    /\ pre' = cache
    /\ UNCHANGED <<cache, orig, wrap, p, vals, prevals, rng>>

PairClearCall ==
    /\ cache' = Clear(cache)
    /\ orig' = <<Clear(orig[1])>>
    /\ last' = [NoCall EXCEPT !.op = "clear"]
    /\ pre' = cache
    /\ UNCHANGED <<wrap, p, vals, prevals, rng>>

NextPair ==
    \/ PairHasCall
    \/ PairGetCall
    \/ PairPutCall
    \/ PairDumpCall
    \/ PairClearCall

SpecPair == InitPair /\ [][NextPair]_vars

\* ---------------------------------------------------------------------------
\* A cache that has been used and is then cleared, and from the clear on a
\* newly constructed cache of the same policy and capacity (orig) driven by
\* the same calls and the same draws of random.randint.

\* the inserts explored after the clear: the LFU counter of the cleared cache
\* starts from where the calls before the clear left it, and a full cache
\* takes maxlen further inserts
FreshPutInBounds(c, k) == (c.policy = "LFU" /\ ~Has(c, k)) => c.t < MaxT + MaxCap

\* the calls before the clear
UsedPutCall == orig = <<>> /\ PutCall

UsedGetCall == orig = <<>> /\ GetCall

\* cache.clear(), and orig = Policy(maxlen)
ClearAndNewCall ==
    /\ orig = <<>>
    /\ cache.policy # "NULL"
    /\ cache' = Clear(cache)
    /\ orig' = <<NewCache(cache.policy, Maxlen(cache))>>
    /\ last' = [NoCall EXCEPT !.op = "clear"]
    /\ pre' = cache
    /\ UNCHANGED <<wrap, p, vals, prevals, rng>>

FreshHasCall == orig # <<>> /\ PairHasCall

FreshGetCall == orig # <<>> /\ PairGetCall

FreshPutCall ==
    /\ orig # <<>>
    /\ \E k \in Keys :
        \E draw \in PairDrawsOf(k) :
            /\ FreshPutInBounds(cache, k)
            /\ cache' = Put(cache, k, draw).c
            /\ orig' = <<Put(orig[1], k, draw).c>>
            /\ last' = [NoCall EXCEPT !.op = "put", !.k = k, !.draw = draw,
                                      !.ret = RetOf(Put(cache, k, draw).ret),
                                      !.ref = RetOf(Put(orig[1], k, draw).ret)]
            /\ pre' = cache
            /\ UNCHANGED <<wrap, p, vals, prevals, rng>>

FreshDumpCall == orig # <<>> /\ PairDumpCall

NextFresh ==
    \/ UsedPutCall
    \/ UsedGetCall
    \/ ClearAndNewCall
    \/ FreshHasCall
    \/ FreshGetCall
    \/ FreshPutCall
    \/ FreshDumpCall

SpecFresh == Init /\ [][NextFresh]_vars

\* C11: with p = 1 the instance rand_insert_cache returns gives the same
\* results and ends with the same size and snapshot as an unwrapped cache of
\* the same policy and capacity driven by the same calls and the same draws
\* for RAND eviction.
C11_SameAsUnwrapped ==
    /\ last.ret = last.ref
    /\ CacheLen(cache) = CacheLen(orig[1])
    /\ Dump(cache) = Dump(orig[1])

\* C11 witness: an insert through the wrapper has returned an evicted key.
C11_Witness ==
    /\ p = PScale
    /\ last.op = "rand_put"
    /\ last.ret # <<>>
    /\ last.ret = last.ref

\* C13: has(k) changes nothing, on every policy and on both wrappers: the
\* object, its order and counters and the value map are what they were before
\* the call, so every later call gives what it would have given without it;
\* it returns whether k is resident.
C13_HasIsPure ==
    (last.op = "has") =>
        /\ cache = pre
        /\ vals = prevals
        /\ last.ret = <<last.k \in Resident(pre)>>

\* C13 witness: has(k) of a resident key that is not the most recent one of
\* an LRU cache, or whose LFU frequency a get would raise.
C13_Witness ==
    /\ last.op = "has"
    /\ last.ret = <<TRUE>>
    /\ \/ cache.policy = "LRU" /\ Len(Dump(cache)) >= 2 /\ Dump(cache)[1] # last.k
       \/ cache.policy = "LFU"
    /\ cache = pre

\* C14 as stated: clear() leaves size 0 and an empty snapshot, sets every
\* counter of the instance back to its value at construction (the LFU sequence
\* counter t back to 0), and on the instance keyval_cache returned also
\* empties the value map.
C14_ClearResetsCounters ==
    (last.op \in {"clear", "kv_clear"}) =>
        /\ CacheLen(cache) = 0
        /\ Dump(cache) = <<>>
        /\ (cache.policy = "LFU") => (cache.t = 0)
        /\ (last.op = "kv_clear") => (vals = EmptyMap)

\* C14 amended: clear() leaves size 0 and an empty snapshot, and on the
\* instance keyval_cache returned also empties the value map; the LFU sequence
\* counter t is not reset, it keeps the value it had before the call.
C14_ClearEmptiesKeepsT ==
    (last.op \in {"clear", "kv_clear"}) =>
        /\ CacheLen(cache) = 0
        /\ Dump(cache) = <<>>
        /\ Resident(cache) = {}
        /\ (cache.policy = "LFU") => (cache.t = pre.t)
        /\ (last.op = "kv_clear") => (vals = EmptyMap)

\* C14 witness: the wrapped LFU cache held a key with a value and had counted
\* at least one insertion when it was cleared.
C14_Witness ==
    /\ last.op = "kv_clear"
    /\ cache.policy = "LFU"
    /\ CacheLen(pre) > 0
    /\ pre.t > 0
    /\ DOMAIN prevals # {}
    /\ cache.t = pre.t

\* the 0-based index of k in the sequence s
IndexIn(s, k) == (CHOOSE i \in 1..Len(s) : s[i] = k /\ \A j \in 1..(i - 1) : s[j] # k) - 1

\* C16: position(k) on LRU and FIFO returns the 0-based index of k in the
\* snapshot when k is resident, raises ValueError (the lookup error) when k is
\* not resident, and leaves the cache as it was in both cases.
C16_Position ==
    (last.op = "position") =>
        /\ cache = pre
        /\ (last.k \in Resident(pre)) =>
                /\ last.exc = "none"
                /\ last.ret = <<IndexIn(Dump(pre), last.k)>>
        /\ (last.k \notin Resident(pre)) =>
                /\ last.exc = "ValueError"
                /\ last.ret = <<>>

\* C16 witness: position of a resident key that is not at the head of a
\* cache holding two keys.
C16_Witness ==
    /\ last.op = "position"
    /\ last.exc = "none"
    /\ last.ret = <<1>>
    /\ Len(Dump(cache)) = 2
    /\ Dump(cache)[2] = last.k

\* the nodes met following the down links from cur, and the up links from cur
RECURSIVE NodesDown(_, _, _)
NodesDown(c, cur, fuel) ==
    IF cur = None \/ fuel = 0 THEN <<>>
    ELSE <<cur>> \o NodesDown(c, c.nodes[cur].down, fuel - 1)

RECURSIVE NodesUp(_, _, _)
NodesUp(c, cur, fuel) ==
    IF cur = None \/ fuel = 0 THEN <<>>
    ELSE <<cur>> \o NodesUp(c, c.nodes[cur].up, fuel - 1)

Reverse(s) == [i \in 1..Len(s) |-> s[Len(s) + 1 - i]]

C19_LfuBookkeeping ==
    (cache.policy = "LFU") =>
        /\ \A k \in DOMAIN cache.cache :
                /\ cache.cache[k][1] >= 1
                /\ cache.cache[k][2] \in 1..cache.t
        /\ \A j, k \in DOMAIN cache.cache :
                (j # k) => (cache.cache[j][2] # cache.cache[k][2])
        /\ cache.t >= pre.t
        /\ \A k \in DOMAIN cache.cache \ DOMAIN pre.cache :
                /\ cache.cache[k] = <<1, pre.t + 1>>
                /\ cache.t = pre.t + 1
        /\ \A k \in DOMAIN cache.cache \cap DOMAIN pre.cache :
                /\ cache.cache[k][2] = pre.cache[k][2]
                /\ cache.cache[k][1] >= pre.cache[k][1]
        /\ (last.op = "get" /\ last.k \in DOMAIN pre.cache) =>
                /\ last.k \in DOMAIN cache.cache
                /\ cache.cache[last.k][1] = pre.cache[last.k][1] + 1

\* C19 witness: get of a resident key of a two-key LfuCache whose other key
\* was inserted before it.
C19_Witness ==
    /\ cache.policy = "LFU"
    /\ last.op = "get"
    /\ Cardinality(DOMAIN cache.cache) = 2
    /\ last.k \in DOMAIN pre.cache
    /\ cache.cache[last.k] = <<2, 2>>

\* C20: LfuCache.put(k) of a resident key returns None and changes nothing:
\* every pair (frequency, sequence) and the counter t stay as they were; no
\* call other than get changes the frequency of a key that stays resident.
C20_LfuPutResidentNoOp ==
    (cache.policy = "LFU") =>
        /\ (last.op = "put" /\ last.k \in DOMAIN pre.cache) =>
                /\ last.ret = <<>>
                /\ cache.cache = pre.cache
                /\ cache.t = pre.t
        /\ (last.op # "get") =>
                \A k \in DOMAIN cache.cache \cap DOMAIN pre.cache :
                    cache.cache[k][1] = pre.cache[k][1]

\* C20 witness: put of a key resident with frequency 2.
C20_Witness ==
    /\ cache.policy = "LFU"
    /\ last.op = "put"
    /\ last.k \in DOMAIN pre.cache
    /\ pre.cache[last.k][1] = 2
    /\ cache = pre

\* C15: LruCache, LfuCache, FifoCache and RandCache raise ValueError and give
\* no object for maxlen <= 0, NullCache takes any argument and has maxlen 0;
\* rand_insert_cache raises ValueError for p < 0 or p > 1 and both wrapper
\* functions raise TypeError for an object that is not a Cache; a failing
\* call leaves the cache supplied as it was; every other call succeeds.
C15_ConstructionChecks ==
    /\ (last.op = "__init__") =>
            LET policy == last.arg[1]
                maxlen == last.arg[2]
            IN  /\ (policy = "NULL") =>
                        /\ last.exc = "none"
                        /\ last.ret = <<cache>>
                        /\ Maxlen(cache) = 0
                /\ (policy # "NULL" /\ maxlen <= 0) =>
                        /\ last.exc = "ValueError"
                        /\ last.ret = <<>>
                        /\ cache = pre
                /\ (policy # "NULL" /\ maxlen > 0) =>
                        /\ last.exc = "none"
                        /\ last.ret = <<cache>>
                        /\ cache.policy = policy
                        /\ Maxlen(cache) = maxlen
                        /\ CacheLen(cache) = 0
    /\ (last.op = "rand_insert_cache") =>
            LET x == last.arg[1]
                q == last.arg[2]
            IN  /\ cache = pre
                /\ (~IsCache(x)) => (last.exc = "TypeError" /\ last.ret = <<>>)
                /\ (IsCache(x) /\ (q < 0 \/ q > PScale)) =>
                        (last.exc = "ValueError" /\ last.ret = <<>>)
                /\ (IsCache(x) /\ q >= 0 /\ q <= PScale) =>
                        /\ last.exc = "none"
                        /\ last.ret # <<>>
                        /\ last.ret[1].wrap = "rand"
                        /\ last.ret[1].p = q
                        /\ Dump(last.ret[1].c) = Dump(x)
    /\ (last.op = "keyval_cache") =>
            LET x == last.arg[1]
            IN  /\ cache = pre
                /\ (~IsCache(x)) => (last.exc = "TypeError" /\ last.ret = <<>>)
                /\ IsCache(x) =>
                        /\ last.exc = "none"
                        /\ last.ret # <<>>
                        /\ last.ret[1].wrap = "kv"
                        /\ Dump(last.ret[1].c) = Dump(x)

\* C15 witness: rand_insert_cache has refused p > 1 for a cache holding a key.
C15_Witness ==
    /\ last.op = "rand_insert_cache"
    /\ last.exc = "ValueError"
    /\ last.arg[2] > PScale
    /\ CacheLen(cache) > 0
    /\ cache = pre

\* C17 as stated: constructing an instance with rand_insert_cache, seeded or
\* not, and calling put on it leave the generator another instance draws from
\* in the state it was in, so the draws that RandCache sees next (its eviction
\* victims) are the ones it would have seen without the call.
C17_OtherInstanceDrawsUnchanged ==
    (last.op \in {"rand_insert_cache", "rand_put"}) =>
        /\ rng = last.rng0
        /\ \A n \in 1..MaxCap : RngRandint(rng, n) = RngRandint(last.rng0, n)

\* what a caller can observe of a Cache object: len, has and dump
Observed(c) == <<CacheLen(c), Resident(c), Dump(c)>>

\* C12 as stated: the instance w a wrapper function returns and the instance
\* c handed to it share no state: put and clear on w leave len, has and dump
\* of c as they were, and put on c leaves those of w as they were.
C12_WrapperSharesNothing ==
    [][ /\ (last'.op \in {"nest_put", "nest_clear"}) => (Observed(cache') = Observed(cache))
        /\ (last'.op \in {"put", "rand_put"} /\ orig # <<>>) =>
                (orig' # <<>> /\ Observed(orig'[1].c) = Observed(orig[1].c)) ]_vars

\* C21: in every state of a RandCache the first len(cache) slots of a hold
\* exactly the keys of the set, each in one slot; when put evicts from a full
\* cache the victim is the key in the slot drawn, it was resident, and every
\* key resident before the call is the victim for some draw in 0..maxlen-1.
C21_RandSlots ==
    (cache.policy = "RAND") =>
        /\ {cache.a[i] : i \in 0..(CacheLen(cache) - 1)} = cache.cache
        /\ \A i, j \in 0..(CacheLen(cache) - 1) :
                (i # j) => (cache.a[i] # cache.a[j])
        /\ (last.op = "put" /\ last.draw # None) =>
                /\ last.ret = <<pre.a[last.draw]>>
                /\ pre.a[last.draw] \in pre.cache
                /\ pre.a[last.draw] \notin cache.cache
                /\ cache.a[last.draw] = last.k
                /\ \A x \in pre.cache :
                        \E d \in 0..(pre.maxlen - 1) : RandPut(pre, last.k, d).ret = x

\* C21 witness: a full RandCache of two slots has evicted the key in slot 1.
C21_Witness ==
    /\ cache.policy = "RAND"
    /\ last.op = "put"
    /\ last.draw = 1
    /\ last.ret = <<pre.a[1]>>
    /\ CacheLen(cache) = 2

\* C22: after clear(), has, get, put and dump on an LRU, LFU, FIFO or RAND
\* cache return what the same calls (with the same randint draws) return on a
\* newly constructed cache of the same policy and capacity, whatever the
\* clear left behind (the slots of RandCache, the counter t of LfuCache).
C22_ClearedIsFresh ==
    (orig # <<>>) =>
        /\ last.ret = last.ref
        /\ Observed(cache) = Observed(orig[1])

\* C22 witness: a cleared cache that differs inside from the new one (its LFU
\* counter, its RAND slots, its LRU nodes) has evicted the same key as it.
C22_Witness ==
    /\ orig # <<>>
    /\ cache # orig[1]
    /\ last.op = "put"
    /\ last.ret # <<>>
    /\ last.ret = last.ref

====
